---------------------------- MODULE Spec2Model ----------------------------
(***************************************************************************)
(* Model of the loyalty-loop batch pipeline:                               *)
(*   scripts/03_calculate_rfm.py     RFM metrics, scores and segments      *)
(*   scripts/04_create_snapshots.py  customer x month snapshot table       *)
(*                                                                         *)
(* A timestamp is the number of days since ANCHOR_DATE (2024-01-01), the   *)
(* day the cleaning script maps DAY = 1 to.  Currency amounts are whole    *)
(* units (integers); floating point rounding is not modelled.  A missing   *)
(* value (NaN / NaT) of a nullable column is the empty sequence <<>>, a    *)
(* present value v is <<v>>.  A data frame is the sequence of its rows.    *)
(***************************************************************************)
EXTENDS Integers, Sequences, FiniteSets, TLC

VARIABLES
    df,        \* fact_transactions: rows [household_key, BASKET_ID, SALES_VALUE, DATE]
    spine_df,  \* 04: rows [household_key, Month_Start]
    snapshot,  \* 04: the snapshot table under construction
    rfm,       \* 03: the rfm table under construction
    pc         \* position of the running script's main()

vars == <<df, spine_df, snapshot, rfm, pc>>

---------------------------------------------------------------------------
(* Bounds of the model *)

MaxTx == 3            \* rows of the transaction ledger
MaxHouseholds == 2    \* distinct household keys of the ledger

---------------------------------------------------------------------------
(* Calendar: what pandas computes on Timestamps *)

AnchorYear == 2024

IsLeap(y) == (y % 4 = 0 /\ y % 100 # 0) \/ y % 400 = 0

\* days of the calendar month that lies mi months after January of AnchorYear
DaysInMonth(mi) ==
    LET y  == AnchorYear + (mi \div 12)
        mo == (mi % 12) + 1
    IN  IF mo = 2 THEN (IF IsLeap(y) THEN 29 ELSE 28)
        ELSE IF mo \in {4, 6, 9, 11} THEN 30 ELSE 31

RECURSIVE MonthWalk(_, _, _)
\* <<mi, s>>: the month a day d >= start lies in and that month's first day,
\* walking the calendar from month mi, whose first day is start
MonthWalk(d, mi, start) ==
    IF d < start + DaysInMonth(mi) THEN <<mi, start>>
    ELSE MonthWalk(d, mi + 1, start + DaysInMonth(mi))

MonthOf(d) == MonthWalk(d, 0, 0)[1]

\* Timestamp.replace(day=1) and dt.to_period('M').dt.to_timestamp()
ToMonthStart(d) == MonthWalk(d, 0, 0)[2]

\* ts + pd.offsets.MonthEnd(0): roll forward to the last day of the month
MonthEnd0(d) ==
    LET w == MonthWalk(d, 0, 0) IN w[2] + DaysInMonth(w[1]) - 1

RECURSIVE MonthStartsFrom(_, _, _)
\* the first days of the months from month mi (first day s) on, up to day end
MonthStartsFrom(mi, s, end) ==
    IF s > end THEN <<>>
    ELSE <<s>> \o MonthStartsFrom(mi + 1, s + DaysInMonth(mi), end)

RECURSIVE MonthEndsFrom(_, _, _)
MonthEndsFrom(mi, s, end) ==
    IF s + DaysInMonth(mi) - 1 > end THEN <<>>
    ELSE <<s + DaysInMonth(mi) - 1>> \o MonthEndsFrom(mi + 1, s + DaysInMonth(mi), end)

\* pd.date_range(start, end, freq='M'): the month ends in [start, end]
DateRangeM(start, end) ==
    LET w == MonthWalk(start, 0, 0) IN MonthEndsFrom(w[1], w[2], end)

\* pd.date_range(start, end, freq='MS'): the month starts in [start, end], ascending
DateRangeMS(start, end) ==
    LET w == MonthWalk(start, 0, 0)
    IN  IF w[2] = start THEN MonthStartsFrom(w[1], start, end)
        ELSE MonthStartsFrom(w[1] + 1, w[2] + DaysInMonth(w[1]), end)

---------------------------------------------------------------------------
(* Generic helpers on sequences and sets *)

NaN == <<>>
IsNaN(x) == x = <<>>
Val(x) == x[1]

Range(s) == {s[i] : i \in 1..Len(s)}

SetMax(S) == CHOOSE x \in S : \A y \in S : y <= x
SetMin(S) == CHOOSE x \in S : \A y \in S : x <= y

RECURSIVE SumOver(_, _)
\* sum of f[i] for i in the finite set I
SumOver(I, f) ==
    IF I = {} THEN 0
    ELSE LET i == CHOOSE x \in I : TRUE IN f[i] + SumOver(I \ {i}, f)

\* Series.unique(): the distinct values in order of first appearance
Unique(s) ==
    LET firsts == {i \in 1..Len(s) : \A j \in 1..(i - 1) : s[j] # s[i]}
        nth(k) == CHOOSE i \in firsts : Cardinality({j \in firsts : j < i}) = k - 1
    IN  [k \in 1..Cardinality(firsts) |-> s[nth(k)]]

Column(t, c) == [i \in 1..Len(t) |-> t[i][c]]

---------------------------------------------------------------------------
(* Transaction ledgers the scripts are run on *)

BasketIds == <<1, 2>>
SalesValues == <<-5, 10>>
\* 2024-01-20, 2024-02-29, 2024-04-10
TxDates == <<19, 59, 100>>
\* 2024-01-01, 2026-10-07: a history longer than 999 days
LongDates == <<0, 1010>>
LongSales == <<10>>

\* the k-th row (k >= 0) that can be drawn from dates D and amounts S, numbered
\* by day, then household, then basket, then amount
TxRow(D, S, k) ==
    LET nS == Len(S)
        nB == Len(BasketIds)
        nH == MaxHouseholds
    IN  [household_key |-> ((k \div (nS * nB)) % nH) + 1,
         BASKET_ID     |-> BasketIds[((k \div nS) % nB) + 1],
         SALES_VALUE   |-> S[(k % nS) + 1],
         DATE          |-> D[(k \div (nS * nB * nH)) + 1]]

NumTxRows(D, S) == Len(D) * MaxHouseholds * Len(BasketIds) * Len(S)

---------------------------------------------------------------------------
(* 04_create_snapshots.py *)

\* create_customer_month_spine(df)
SpineOf(d) ==
    LET dates == Range(Column(d, "DATE"))
        min_date == ToMonthStart(SetMin(dates))
        max_date == ToMonthStart(SetMax(dates))
        all_months == DateRangeMS(min_date, max_date)
        unique_households == Unique(Column(d, "household_key"))
        nm == Len(all_months)
    IN  \* MultiIndex.from_product: households outer, months inner
        [k \in 1..(Len(unique_households) * nm) |->
            [household_key |-> unique_households[((k - 1) \div nm) + 1],
             Month_Start   |-> all_months[((k - 1) % nm) + 1]]]

\* On an empty df, df['DATE'].min() is NaT (or a float NaN when the column was
\* read as object): NaN.replace(day=1) raises AttributeError, and with NaT
\* pd.date_range(start=NaT, end=NaT) raises ValueError.  Nothing catches it.
SpineRaises(d) == Len(d) = 0

CreateCustomerMonthSpine ==
    /\ pc = "loaded"
    /\ IF SpineRaises(df)
       THEN pc' = "error" /\ spine_df' = spine_df
       ELSE pc' = "spine" /\ spine_df' = SpineOf(df)
    /\ UNCHANGED <<df, snapshot, rfm>>

\* the rows of a household whatever the month: a groupby on household_key alone
GroupRowsAnyMonth(d, hh, ms) ==
    {i \in 1..Len(d) : d[i].household_key = hh}

\* df.groupby(['household_key','Month_Start']).agg(sum, nunique, max) for one group
GroupRows(d, hh, ms) ==
    {i \in 1..Len(d) : d[i].household_key = hh /\ ToMonthStart(d[i].DATE) = ms}

MonthlyAgg(d, hh, ms) ==
    LET g == GroupRows(d, hh, ms)
    IN  [Monthly_Spend  |-> SumOver(g, Column(d, "SALES_VALUE")),
         Monthly_Visits |-> Cardinality({d[i].BASKET_ID : i \in g}),
         Last_Purchase_This_Month |-> SetMax({d[i].DATE : i \in g})]

\* calculate_monthly_metrics(df, spine_df): left merge on the spine, then fillna(0)
SnapshotRow(d, sp) ==
    LET g == GroupRows(d, sp.household_key, sp.Month_Start)
        matched == g # {}
        agg == MonthlyAgg(d, sp.household_key, sp.Month_Start)
    IN  [household_key  |-> sp.household_key,
         Month_Start    |-> sp.Month_Start,
         Monthly_Spend  |-> IF matched THEN agg.Monthly_Spend ELSE 0,
         Monthly_Visits |-> IF matched THEN agg.Monthly_Visits ELSE 0,
         Last_Purchase_This_Month |->
             IF matched THEN <<agg.Last_Purchase_This_Month>> ELSE NaN]

MonthlyMetrics(d, spine) == [k \in 1..Len(spine) |-> SnapshotRow(d, spine[k])]

CalculateMonthlyMetrics ==
    /\ pc = "spine"
    /\ snapshot' = MonthlyMetrics(df, spine_df)
    /\ pc' = "metrics"
    /\ UNCHANGED <<df, spine_df, rfm>>

\* snapshot.sort_values(['household_key', 'Month_Start'])
KeyLess(a, b) ==
    \/ a.household_key < b.household_key
    \/ a.household_key = b.household_key /\ a.Month_Start < b.Month_Start

SortValues(t) ==
    LET before(i) == {j \in 1..Len(t) :
                        KeyLess(t[j], t[i]) \/ (~KeyLess(t[i], t[j]) /\ j < i)}
        at(k) == CHOOSE i \in 1..Len(t) : Cardinality(before(i)) = k - 1
    IN  [k \in 1..Len(t) |-> t[at(k)]]

\* Last_Purchase_This_Month.ffill() without the groupby
FFillUngrouped(t, i) ==
    LET known == {j \in 1..i : ~IsNaN(t[j].Last_Purchase_This_Month)}
    IN  IF known = {} THEN NaN ELSE t[SetMax(known)].Last_Purchase_This_Month

\* groupby('household_key')[col].ffill() at row i of t: the last present value
\* at or above row i within the household's group
FFill(t, i) ==
    LET known == {j \in 1..i : t[j].household_key = t[i].household_key
                               /\ ~IsNaN(t[j].Last_Purchase_This_Month)}
    IN  IF known = {} THEN NaN ELSE t[SetMax(known)].Last_Purchase_This_Month

Sentinel == 999

\* (Month_End - Last_Purchase_Anytime).dt.days, then fillna(999).astype(int)
LapsedDays(month_end, last_purchase_anytime) ==
    IF IsNaN(last_purchase_anytime) THEN Sentinel
    ELSE month_end - Val(last_purchase_anytime)

\* Monthly_Spend.rolling(window=3, min_periods=1).sum() without the groupby
Rolling3Ungrouped(t, i) ==
    SumOver({j \in 1..Len(t) : i - 2 <= j /\ j <= i}, Column(t, "Monthly_Spend"))

\* groupby('household_key')['Monthly_Spend'].rolling(window=3, min_periods=1).sum()
Rolling3(t, i) ==
    LET grp == {j \in 1..Len(t) : t[j].household_key = t[i].household_key}
        win == {j \in grp : j <= i /\ Cardinality({k \in grp : j < k /\ k <= i}) <= 2}
    IN  SumOver(win, Column(t, "Monthly_Spend"))

\* np.select(conditions, choices, default='New/Unknown')
StatusOf(lapsed) ==
    IF lapsed <= 14 THEN "Active"
    ELSE IF lapsed <= 30 THEN "At-Risk"
    ELSE IF lapsed < Sentinel THEN "Churned"
    ELSE "New/Unknown"

\* calculate_history_and_status(snapshot)
HistoryAndStatus(t0) ==
    LET t == SortValues(t0)
    IN  [i \in 1..Len(t) |->
            LET lpa == FFill(t, i)
                me  == MonthEnd0(t[i].Month_Start)
                ld  == LapsedDays(me, lpa)
            IN  [household_key  |-> t[i].household_key,
                 Month_Start    |-> t[i].Month_Start,
                 Monthly_Spend  |-> t[i].Monthly_Spend,
                 Monthly_Visits |-> t[i].Monthly_Visits,
                 Last_Purchase_This_Month |-> t[i].Last_Purchase_This_Month,
                 Last_Purchase_Anytime    |-> lpa,
                 Month_End        |-> me,
                 Lapsed_Days      |-> ld,
                 Rolling_3M_Spend |-> Rolling3(t, i),
                 Status           |-> StatusOf(ld)]]

CalculateHistoryAndStatus ==
    /\ pc = "metrics"
    /\ snapshot' = HistoryAndStatus(snapshot)
    /\ pc' = "done"
    /\ UNCHANGED <<df, spine_df, rfm>>

NextSnapshot ==
    \/ CreateCustomerMonthSpine
    \/ CalculateMonthlyMetrics
    \/ CalculateHistoryAndStatus

\* state after load_transactions(): a ledger of 1..MaxTx rows, listed in day
\* order (every use the scripts make of df is a min, max, unique or groupby
\* aggregate, so the order of its rows only decides the order of the spine)
InitLedger(D, S) ==
    /\ \E n \in 1..MaxTx : \E c \in [1..n -> 0..(NumTxRows(D, S) - 1)] :
          /\ \A i \in 1..(n - 1) : c[i] <= c[i + 1]
          /\ df = [i \in 1..n |-> TxRow(D, S, c[i])]
    /\ spine_df = <<>>
    /\ snapshot = <<>>
    /\ rfm = <<>>
    /\ pc = "loaded"

InitSnapshot == InitLedger(TxDates, SalesValues)
SpecSnapshot == InitSnapshot /\ [][NextSnapshot]_vars

InitLongHistory == InitLedger(LongDates, LongSales)
SpecLongHistory == InitLongHistory /\ [][NextSnapshot]_vars

---------------------------------------------------------------------------
(* 03_calculate_rfm.py *)

\* calculate_rfm(): one row per household, in ascending key order (groupby sorts)
RfmOf(d) ==
    LET analysis_date == SetMax(Range(Column(d, "DATE")))
        keys == Range(Column(d, "household_key"))
        key(k) == CHOOSE h \in keys : Cardinality({g \in keys : g < h}) = k - 1
        rows(h) == {i \in 1..Len(d) : d[i].household_key = h}
    IN  [k \in 1..Cardinality(keys) |->
            [household_key |-> key(k),
             Recency_Days  |-> analysis_date - SetMax({d[i].DATE : i \in rows(key(k))}),
             Frequency     |-> Cardinality({d[i].BASKET_ID : i \in rows(key(k))}),
             Monetary      |-> SumOver(rows(key(k)), Column(d, "SALES_VALUE"))]]

\* On an empty df, analysis_date = df['DATE'].max() is NaT (or a float NaN),
\* and the print of analysis_date.date() raises ValueError ("NaTType does not
\* support date") or AttributeError before the groupby.  Nothing catches it.
RfmRaises(d) == Len(d) = 0

CalculateRfm ==
    /\ pc = "loaded"
    /\ IF RfmRaises(df)
       THEN pc' = "error" /\ rfm' = rfm
       ELSE pc' = "rfm" /\ rfm' = RfmOf(df)
    /\ UNCHANGED <<df, spine_df, snapshot>>

\* get_r_score with the cycle boundaries excluded (< for <=)
get_r_score_strict(days) ==
    IF days < 7 THEN 5
    ELSE IF days < 14 THEN 4
    ELSE IF days < 30 THEN 3
    ELSE IF days < 60 THEN 2
    ELSE 1

\* assign_strategic_scores.get_r_score
get_r_score(days) ==
    IF days <= 7 THEN 5
    ELSE IF days <= 14 THEN 4
    ELSE IF days <= 30 THEN 3
    ELSE IF days <= 60 THEN 2
    ELSE 1

\* Series.rank(method='min'): ties share the lowest rank of their group
RankMin(x) ==
    [i \in 1..Len(x) |-> 1 + Cardinality({j \in 1..Len(x) : x[j] < x[i]})]

\* Series.rank(method='first'): ascending, ties in order of appearance
RankFirst(x) ==
    [i \in 1..Len(x) |->
        1 + Cardinality({j \in 1..Len(x) : x[j] < x[i] \/ (x[j] = x[i] /\ j < i)})]

NumBins == 4

\* the k-th smallest element of the sequence x (k from 1)
KthSmallest(x, k) ==
    x[CHOOSE i \in 1..Len(x) :
        Cardinality({j \in 1..Len(x) : x[j] < x[i] \/ (x[j] = x[i] /\ j < i)}) = k - 1]

\* 4 times the bin edges of pd.qcut(x, 4): the quantiles 0, 1/4, .., 1 of x by
\* linear interpolation between the order statistics
QuantileEdges4(x) ==
    [e \in 1..(NumBins + 1) |->
        LET h  == (e - 1) * (Len(x) - 1)
            lo == (h \div NumBins) + 1
            fr == h % NumBins
        IN  IF fr = 0 THEN NumBins * KthSmallest(x, lo)
            ELSE NumBins * KthSmallest(x, lo)
                 + fr * (KthSmallest(x, lo + 1) - KthSmallest(x, lo))]

\* pd.qcut(x, 4, labels=[1, 2, 3, 4]).astype(int): raises ValueError when the
\* bin edges are not unique (also for an empty x, whose quantiles are all NaN),
\* else gives the label of each element: bin e is (edge e, edge e+1], the first
\* bin closed on the left
\* a qcut that also refuses fewer elements than bins
QCutRaisesOnSmall(x) ==
    \/ Len(x) < NumBins
    \/ Cardinality(Range(QuantileEdges4(x))) < NumBins + 1

QCutRaisesOn(x) ==
    \/ Len(x) = 0
    \/ Cardinality(Range(QuantileEdges4(x))) < NumBins + 1

QCut(x) ==
    LET edges == QuantileEdges4(x)
    IN  [i \in 1..Len(x) |->
            IF NumBins * x[i] = edges[1] THEN 1
            ELSE Cardinality({e \in 1..(NumBins + 1) : edges[e] < NumBins * x[i]})]

\* a mask that selects every row: F/M scored over the whole population
ActiveRowsAll(r_scores) == [k \in 1..Len(r_scores) |-> k]

\* active_data = rfm[active_mask]: the positions of rfm the mask selects, in order
ActiveRows(r_scores) ==
    LET act == {i \in 1..Len(r_scores) : r_scores[i] >= 3}
        nth(k) == CHOOSE i \in act : Cardinality({j \in act : j < i}) = k - 1
    IN  [k \in 1..Cardinality(act) |-> nth(k)]

\* DataFrame.fillna(1).astype(int) on one cell
FillNa1(x) == IF IsNaN(x) THEN 1 ELSE Val(x)

\* assign_strategic_scores(rfm)
StrategicScores(t) ==
    LET r_scores == [i \in 1..Len(t) |-> get_r_score(t[i].Recency_Days)]
        active == ActiveRows(r_scores)
        f_rank == RankFirst([k \in 1..Len(active) |-> t[active[k]].Frequency])
        m_rank == RankFirst([k \in 1..Len(active) |-> t[active[k]].Monetary])
        \* try: both assignments; except ValueError: both columns set to 1
        raised == QCutRaisesOn(f_rank) \/ QCutRaisesOn(m_rank)
        \* rfm.loc[active_mask, col] = ...: rows outside the mask stay NaN
        f_col(i) == IF \E k \in 1..Len(active) : active[k] = i
                    THEN (IF raised THEN <<1>>
                          ELSE <<QCut(f_rank)[CHOOSE k \in 1..Len(active) : active[k] = i]>>)
                    ELSE NaN
        m_col(i) == IF \E k \in 1..Len(active) : active[k] = i
                    THEN (IF raised THEN <<1>>
                          ELSE <<QCut(m_rank)[CHOOSE k \in 1..Len(active) : active[k] = i]>>)
                    ELSE NaN
    IN  [i \in 1..Len(t) |->
            [household_key |-> t[i].household_key,
             Recency_Days  |-> t[i].Recency_Days,
             Frequency     |-> t[i].Frequency,
             Monetary      |-> t[i].Monetary,
             R_Score       |-> r_scores[i],
             F_Score       |-> FillNa1(f_col(i)),
             M_Score       |-> FillNa1(m_col(i)),
             RFM_Score     |-> <<r_scores[i], FillNa1(f_col(i)), FillNa1(m_col(i))>>]]

\* whether the except branch of assign_strategic_scores runs on t
QCutRaises(t) ==
    LET r_scores == [i \in 1..Len(t) |-> get_r_score(t[i].Recency_Days)]
        active == ActiveRows(r_scores)
    IN  \/ QCutRaisesOn(RankFirst([k \in 1..Len(active) |-> t[active[k]].Frequency]))
        \/ QCutRaisesOn(RankFirst([k \in 1..Len(active) |-> t[active[k]].Monetary]))

AssignStrategicScores ==
    /\ pc = "rfm"
    /\ rfm' = StrategicScores(rfm)
    /\ pc' = IF QCutRaises(rfm) THEN "scored_fallback" ELSE "scored"
    /\ UNCHANGED <<df, spine_df, snapshot>>

\* get_segment with the Loyalists rule tried before the Champions rule
get_segment_reordered(row) ==
    LET r == row.R_Score
        f == row.F_Score
    IN  IF r >= 4 /\ f >= 3 THEN "Loyalists"
        ELSE IF r = 5 /\ f = 4 THEN "Champions"
        ELSE IF r >= 4 /\ f <= 2 THEN "Potential Loyal"
        ELSE IF r = 3 THEN "At Risk (Intervention)"
        ELSE IF r = 2 THEN "Hibernating"
        ELSE "Lost"

\* assign_segments.get_segment
get_segment(row) ==
    LET r == row.R_Score
        f == row.F_Score
    IN  IF r = 5 /\ f = 4 THEN "Champions"
        ELSE IF r >= 4 /\ f >= 3 THEN "Loyalists"
        ELSE IF r >= 4 /\ f <= 2 THEN "Potential Loyal"
        ELSE IF r = 3 THEN "At Risk (Intervention)"
        ELSE IF r = 2 THEN "Hibernating"
        ELSE "Lost"

\* assign_segments.get_lifecycle
get_lifecycle(r_score) ==
    IF r_score >= 4 THEN "Active"
    ELSE IF r_score = 3 THEN "At-Risk"
    ELSE "Churned"

\* assign_segments(rfm)
Segments(t) ==
    [i \in 1..Len(t) |->
        [household_key |-> t[i].household_key,
         Recency_Days  |-> t[i].Recency_Days,
         Frequency     |-> t[i].Frequency,
         Monetary      |-> t[i].Monetary,
         R_Score       |-> t[i].R_Score,
         F_Score       |-> t[i].F_Score,
         M_Score       |-> t[i].M_Score,
         RFM_Score     |-> t[i].RFM_Score,
         RFM_Segment   |-> get_segment(t[i]),
         Lifecycle_Stage |-> get_lifecycle(t[i].R_Score)]]

AssignSegments ==
    /\ pc \in {"scored", "scored_fallback"}
    /\ rfm' = Segments(rfm)
    /\ pc' = "done"
    /\ UNCHANGED <<df, spine_df, snapshot>>

NextRfm ==
    \/ CalculateRfm
    \/ AssignStrategicScores
    \/ AssignSegments

\* the whole script on a ledger
InitRfm == InitLedger(TxDates, SalesValues)
SpecRfm == InitRfm /\ [][NextRfm]_vars

NextScores ==
    \/ AssignStrategicScores
    \/ AssignSegments

\* the k-th metrics row (k >= 0) drawn from recencies R and (Frequency,
\* Monetary) pairs FM
MetricsRow(R, FM, hh, k) ==
    [household_key |-> hh,
     Recency_Days  |-> R[(k \div Len(FM)) + 1],
     Frequency     |-> FM[(k % Len(FM)) + 1][1],
     Monetary      |-> FM[(k % Len(FM)) + 1][2]]

\* state after calculate_rfm(): households in key order, the household that
\* bought on the analysis date has recency 0
InitMetrics(R, FM, maxRows) ==
    /\ \E n \in 1..maxRows : \E c \in [1..n -> 0..(Len(R) * Len(FM) - 1)] :
          /\ rfm = [i \in 1..n |-> MetricsRow(R, FM, i, c[i])]
          /\ \E i \in 1..n : rfm[i].Recency_Days = 0
    /\ df = <<>>
    /\ spine_df = <<>>
    /\ snapshot = <<>>
    /\ pc = "rfm"

MaxBoundaryRows == 3
BoundaryRecencies == <<0, 7, 8, 14, 15, 30, 31, 60, 61>>
OneMetric == << <<1, 10>> >>

InitRecency == InitMetrics(BoundaryRecencies, OneMetric, MaxBoundaryRows)
SpecRecency == InitRecency /\ [][NextScores]_vars

MaxRfmRows == 5
\* recency 0: active, 45: outside the active subpopulation
BinRecencies == <<0, 45>>
\* (Frequency, Monetary): duplicates in either column, in different patterns
BinMetrics == << <<1, 10>>, <<2, 10>>, <<2, -5>> >>

InitBins == InitMetrics(BinRecencies, BinMetrics, MaxRfmRows)
SpecBins == InitBins /\ [][NextScores]_vars

MaxScoredRows == 1

\* a scored table with every combination of scores, as input of assign_segments
InitSegments ==
    /\ \E n \in 1..MaxScoredRows : \E c \in [1..n -> 0..79] :
          rfm = [i \in 1..n |->
                   LET r == (c[i] \div 16) + 1
                       f == ((c[i] \div 4) % 4) + 1
                       m == (c[i] % 4) + 1
                   IN  [household_key |-> i, Recency_Days |-> 0, Frequency |-> 1,
                        Monetary |-> 10, R_Score |-> r, F_Score |-> f, M_Score |-> m,
                        RFM_Score |-> <<r, f, m>>]]
    /\ df = <<>>
    /\ spine_df = <<>>
    /\ snapshot = <<>>
    /\ pc = "scored"

NextSegments == AssignSegments
SpecSegments == InitSegments /\ [][NextSegments]_vars

---------------------------------------------------------------------------
(* Properties of the RFM scores and segments *)

Scored == pc \in {"scored", "scored_fallback", "done"}

RfmRows == 1..Len(rfm)

\* C1: every customer's r_score is in 1..5 and is the fixed step function of
\* recency_days: 0..7 gives 5, 8..14 gives 4, 15..30 gives 3, 31..60 gives 2,
\* 61 or more gives 1, whatever the other customers of the table are.
C1_RScoreStepFunction ==
    Scored =>
        \A i \in RfmRows :
            LET d == rfm[i].Recency_Days
                r == rfm[i].R_Score
            IN  /\ r \in 1..5
                /\ (r = 5) = (d <= 7)
                /\ (r = 4) = (8 <= d /\ d <= 14)
                /\ (r = 3) = (15 <= d /\ d <= 30)
                /\ (r = 2) = (31 <= d /\ d <= 60)
                /\ (r = 1) = (61 <= d)

\* a scored table holding both sides of two cycle boundaries
C1_Witness ==
    /\ pc = "scored"
    /\ \E i, j, k \in RfmRows :
          /\ rfm[i].Recency_Days = 14 /\ rfm[i].R_Score = 4
          /\ rfm[j].Recency_Days = 15 /\ rfm[j].R_Score = 3
          /\ rfm[k].Recency_Days = 0  /\ rfm[k].R_Score = 5

\* the decision list of section 4.3 written out pair by pair
SegmentTable ==
    [r \in 1..5 |-> [f \in 1..4 |->
        CASE r = 5 /\ f = 4         -> "Champions"
          [] r = 5 /\ f = 3         -> "Loyalists"
          [] r = 4 /\ f \in {3, 4}  -> "Loyalists"
          [] r \in {4, 5} /\ f \in {1, 2} -> "Potential Loyal"
          [] r = 3                  -> "At Risk (Intervention)"
          [] r = 2                  -> "Hibernating"
          [] r = 1                  -> "Lost"]]

\* C2: the segment of every row is the label the ordered first-match list gives
\* its (r_score, f_score) pair, for every pair of 1..5 x 1..4; it is one of the
\* six labels and does not depend on m_score.
C2_SegmentDecisionList ==
    pc = "done" =>
        \A i \in RfmRows :
            /\ rfm[i].RFM_Segment = SegmentTable[rfm[i].R_Score][rfm[i].F_Score]
            /\ rfm[i].RFM_Segment \in
                  {"Champions", "Loyalists", "Potential Loyal",
                   "At Risk (Intervention)", "Hibernating", "Lost"}

\* a Champions row with the lowest monetary score
C2_Witness ==
    /\ pc = "done"
    /\ \E i \in RfmRows :
          /\ rfm[i].R_Score = 5 /\ rfm[i].F_Score = 4 /\ rfm[i].M_Score = 1
          /\ rfm[i].RFM_Segment = "Champions"

\* C3: after assign_strategic_scores every customer with r_score < 3 has
\* f_score = 1 and m_score = 1, whatever its frequency and monetary values and
\* whether the quantile binning succeeded or the fallback branch ran.
C3_InactiveScoreOne ==
    Scored =>
        \A i \in RfmRows :
            rfm[i].R_Score < 3 => rfm[i].F_Score = 1 /\ rfm[i].M_Score = 1

\* an inactive customer with the highest frequency of the table, next to active
\* customers that the binning spread up to score 4
C3_Witness ==
    /\ pc = "scored"
    /\ \E i, j \in RfmRows :
          /\ rfm[i].R_Score < 3 /\ rfm[i].Frequency = 2 /\ rfm[i].F_Score = 1
          /\ rfm[j].R_Score >= 3 /\ rfm[j].Frequency = 1 /\ rfm[j].F_Score = 4

ActiveSet == {i \in RfmRows : rfm[i].R_Score >= 3}
FBin(b) == Cardinality({i \in ActiveSet : rfm[i].F_Score = b})
MBin(b) == Cardinality({i \in ActiveSet : rfm[i].M_Score = b})

\* C4: the f_score values and, independently, the m_score values of the active
\* customers (r_score >= 3) are in 1..4, and the four bins they form have sizes
\* that differ pairwise by at most 1, for every size of the active
\* subpopulation and every pattern of duplicate values.
C4_QuartileBinsBalanced ==
    Scored =>
        /\ \A i \in ActiveSet : rfm[i].F_Score \in 1..4 /\ rfm[i].M_Score \in 1..4
        /\ \A a, b \in 1..4 : FBin(a) - FBin(b) <= 1 /\ MBin(a) - MBin(b) <= 1

\* five active customers, all with the same frequency, split 2-1-1-1
C4_Witness ==
    /\ pc = "scored"
    /\ Cardinality(ActiveSet) = 5
    /\ \A i, j \in ActiveSet : rfm[i].Frequency = rfm[j].Frequency
    /\ FBin(1) = 2 /\ FBin(2) = 1 /\ FBin(3) = 1 /\ FBin(4) = 1
    /\ \E i, j \in ActiveSet : rfm[i].F_Score # rfm[i].M_Score

AllActiveOne == \A i \in ActiveSet : rfm[i].F_Score = 1 /\ rfm[i].M_Score = 1

\* C5, as the specification states it: with 1, 2 or 3 active customers, or
\* with active customers of identical frequency and monetary values, the
\* scorer finishes and every active customer has f_score = m_score = 1.
C5_Original ==
    (/\ Scored
     /\ \/ Cardinality(ActiveSet) \in 1..3
        \/ /\ ActiveSet # {}
           /\ \A i, j \in ActiveSet : /\ rfm[i].Frequency = rfm[j].Frequency
                                      /\ rfm[i].Monetary = rfm[j].Monetary)
    => AllActiveOne

\* C5, amended: the binning fails, and the scorer falls back to
\* f_score = m_score = 1 for every active customer, exactly when there is a
\* single active customer; with 2 or more the binning succeeds whatever the
\* duplicates, and gives score 1 to some active customer and 4 to another.
C5_FallbackOnlyForOne ==
    pc \in {"scored", "scored_fallback"} =>
        /\ (pc = "scored_fallback") = (Cardinality(ActiveSet) = 1)
        /\ (pc = "scored_fallback" => AllActiveOne)
        /\ (pc = "scored" =>
              /\ FBin(1) >= 1 /\ FBin(4) >= 1
              /\ MBin(1) >= 1 /\ MBin(4) >= 1)

\* the fallback ran on a single active customer of a larger table
C5_Witness ==
    /\ pc = "scored_fallback"
    /\ Cardinality(ActiveSet) = 1
    /\ Len(rfm) >= 2
    /\ AllActiveOne

---------------------------------------------------------------------------
(* Properties of the snapshot table *)

Customers == {df[i].household_key : i \in 1..Len(df)}
TxMonths == {MonthOf(df[i].DATE) : i \in 1..Len(df)}

\* the first days of the calendar months from the month of the earliest
\* transaction to the month of the latest one
SpanMonthStarts ==
    {d \in 0..SetMax({df[i].DATE : i \in 1..Len(df)}) :
        ToMonthStart(d) = d /\ MonthOf(d) >= SetMin(TxMonths)}

\* the transactions of household hh dated in month mi
TxIn(hh, mi) ==
    {i \in 1..Len(df) : df[i].household_key = hh /\ MonthOf(df[i].DATE) = mi}

\* the transactions of household hh dated in month mi or earlier
TxUpTo(hh, mi) ==
    {i \in 1..Len(df) : df[i].household_key = hh /\ MonthOf(df[i].DATE) <= mi}

SnapRows == 1..Len(snapshot)

\* C6: the spine holds exactly one row for every pair of a customer of the
\* ledger and a first-of-month between the months of the earliest and the
\* latest transaction: no pair missing, none twice, and as many rows as
\* customers times months, months without any transaction included.
C6_SpineIsFullGrid ==
    pc # "loaded" =>
        /\ {<<spine_df[k].household_key, spine_df[k].Month_Start>> :
               k \in 1..Len(spine_df)} = Customers \X SpanMonthStarts
        /\ Len(spine_df) = Cardinality(Customers) * Cardinality(SpanMonthStarts)
        /\ Cardinality(SpanMonthStarts) = SetMax(TxMonths) - SetMin(TxMonths) + 1

\* two customers over January..April 2024, with a month nobody bought in
C6_Witness ==
    /\ pc = "spine"
    /\ Cardinality(Customers) = 2
    /\ Len(spine_df) = 8
    /\ \E k \in 1..Len(spine_df) :
          \A i \in 1..Len(df) : ToMonthStart(df[i].DATE) # spine_df[k].Month_Start

\* C7: in the finished snapshot, ordered by customer and month, lapsed_days of
\* a row is the number of days from the last day of its month back to the
\* customer's latest transaction dated in that month or an earlier one, and
\* 999 when the customer has no such transaction.
C7_LapsedDays ==
    pc = "done" =>
        /\ \A i \in SnapRows : \A j \in SnapRows :
              i < j => KeyLess(snapshot[i], snapshot[j])
        /\ \A i \in SnapRows :
              LET hh == snapshot[i].household_key
                  mi == MonthOf(snapshot[i].Month_Start)
                  last_day == snapshot[i].Month_Start + DaysInMonth(mi) - 1
                  prior == {df[k].DATE : k \in TxUpTo(hh, mi)}
              IN  snapshot[i].Lapsed_Days =
                      IF prior = {} THEN 999 ELSE last_day - SetMax(prior)

\* a month the customer did not buy in, after an earlier purchase and before a
\* later one, in which another customer bought
C7_Witness ==
    /\ pc = "done"
    /\ \E i \in SnapRows :
          LET hh == snapshot[i].household_key
              mi == MonthOf(snapshot[i].Month_Start)
          IN  /\ TxIn(hh, mi) = {}
              /\ TxUpTo(hh, mi) # {}
              /\ \E k \in 1..Len(df) :
                    df[k].household_key = hh /\ MonthOf(df[k].DATE) > mi
              /\ \E k \in 1..Len(df) :
                    df[k].household_key # hh /\ MonthOf(df[k].DATE) = mi
              /\ snapshot[i].Lapsed_Days # 999

\* C8: a row's status is New/Unknown exactly when the customer has no
\* transaction in the row's month or earlier; a row of a customer who has
\* purchased by then is Active for lapsed_days <= 14, At-Risk for 15..30 and
\* Churned above 30, however long the history is.
C8_StatusByLapsedDays ==
    pc = "done" =>
        \A i \in SnapRows :
            LET purchased == TxUpTo(snapshot[i].household_key,
                                    MonthOf(snapshot[i].Month_Start)) # {}
                ld == snapshot[i].Lapsed_Days
                st == snapshot[i].Status
            IN  /\ (st = "New/Unknown") = ~purchased
                /\ purchased =>
                      /\ (st = "Active")  = (ld <= 14)
                      /\ (st = "At-Risk") = (15 <= ld /\ ld <= 30)
                      /\ (st = "Churned") = (ld > 30)

\* the same customer and month index in the finished snapshot
SpendIn(hh, mi) ==
    SumOver({j \in SnapRows : /\ snapshot[j].household_key = hh
                              /\ MonthOf(snapshot[j].Month_Start) = mi},
            Column(snapshot, "Monthly_Spend"))

\* C9: rolling_3m_spend of a row is the sum of the same customer's
\* monthly_spend over the row's month and the up to two months before it: the
\* first spine month counts alone, and no later month and no other customer's
\* month is counted.
C9_RollingThreeMonths ==
    pc = "done" =>
        \A i \in SnapRows :
            LET hh == snapshot[i].household_key
                mi == MonthOf(snapshot[i].Month_Start)
                first == SetMin(TxMonths)
                win == {m \in (mi - 2)..mi : m >= first}
            IN  /\ snapshot[i].Rolling_3M_Spend =
                      SumOver(win, [m \in win |-> SpendIn(hh, m)])
                /\ mi = first =>
                      snapshot[i].Rolling_3M_Spend = snapshot[i].Monthly_Spend

\* a fourth-month row whose window leaves out the customer's first-month spend
\* and differs from the month's own spend
C9_Witness ==
    /\ pc = "done"
    /\ Cardinality(Customers) = 2
    /\ \E i \in SnapRows :
          LET hh == snapshot[i].household_key
              mi == MonthOf(snapshot[i].Month_Start)
          IN  /\ mi = SetMin(TxMonths) + 3
              /\ SpendIn(hh, mi - 3) # 0
              /\ snapshot[i].Rolling_3M_Spend # snapshot[i].Monthly_Spend
              /\ snapshot[i].Rolling_3M_Spend = SpendIn(hh, mi) + SpendIn(hh, mi - 2)

HasMetrics == pc \in {"metrics", "done"}

\* C10, as the specification states it: every snapshot row has
\* monthly_spend >= 0 and monthly_visits >= 0, and both are 0 for a customer
\* and month without transactions, for ledgers with returns (negative amounts).
C10_Original ==
    HasMetrics =>
        \A i \in SnapRows :
            /\ snapshot[i].Monthly_Spend >= 0
            /\ snapshot[i].Monthly_Visits >= 0
            /\ TxIn(snapshot[i].household_key, MonthOf(snapshot[i].Month_Start)) = {}
                  => snapshot[i].Monthly_Spend = 0 /\ snapshot[i].Monthly_Visits = 0

\* C10, amended: every snapshot row has monthly_visits >= 0 and a
\* monthly_spend equal to the signed sum of the customer's sales amounts of
\* that month, which is >= 0 unless the month holds a return; both are 0 for a
\* customer and month without transactions.
C10_SpendIsSignedSum ==
    HasMetrics =>
        \A i \in SnapRows :
            LET tx == TxIn(snapshot[i].household_key, MonthOf(snapshot[i].Month_Start))
                amounts == {df[k].SALES_VALUE : k \in tx}
                times(v) == Cardinality({k \in tx : df[k].SALES_VALUE = v})
            IN  /\ snapshot[i].Monthly_Spend =
                      SumOver(amounts, [v \in amounts |-> v * times(v)])
                /\ snapshot[i].Monthly_Visits >= 0
                /\ (\A v \in amounts : v >= 0) => snapshot[i].Monthly_Spend >= 0
                /\ tx = {} => snapshot[i].Monthly_Spend = 0 /\ snapshot[i].Monthly_Visits = 0

\* a month of returns only next to a month without transactions
C10_Witness ==
    /\ pc = "metrics"
    /\ \E i, j \in SnapRows :
          /\ snapshot[i].household_key = snapshot[j].household_key
          /\ snapshot[i].Monthly_Spend < 0 /\ snapshot[i].Monthly_Visits = 1
          /\ TxIn(snapshot[j].household_key, MonthOf(snapshot[j].Month_Start)) = {}
          /\ snapshot[j].Monthly_Spend = 0 /\ snapshot[j].Monthly_Visits = 0

---------------------------------------------------------------------------
(* Either script run on a ledger that may be empty *)

\* state after read_csv of a fact_transactions.csv of 0..MaxTx rows
InitAnyLedger ==
    /\ \E n \in 0..MaxTx : \E c \in [1..n -> 0..(NumTxRows(TxDates, SalesValues) - 1)] :
          /\ \A i \in 1..(n - 1) : c[i] <= c[i + 1]
          /\ df = [i \in 1..n |-> TxRow(TxDates, SalesValues, c[i])]
    /\ spine_df = <<>>
    /\ snapshot = <<>>
    /\ rfm = <<>>
    /\ pc = "loaded"

NextPipelines ==
    \/ CalculateRfm
    \/ AssignStrategicScores
    \/ AssignSegments
    \/ CreateCustomerMonthSpine
    \/ CalculateMonthlyMetrics
    \/ CalculateHistoryAndStatus

SpecPipelines == InitAnyLedger /\ [][NextPipelines]_vars

\* C11: on an empty transaction set the RFM pipeline and the snapshot pipeline
\* each run to completion with an empty table: no run on an empty ledger ends
\* in the error state, and each run goes on from the loaded state.
C11_EmptyInputCompletes ==
    Len(df) = 0 =>
        /\ pc # "error"
        /\ rfm = <<>> /\ spine_df = <<>> /\ snapshot = <<>>

\* C11 for the RFM script alone
C11_RfmCompletesOnEmpty ==
    [][(Len(df) = 0 /\ CalculateRfm) => pc' = "rfm"]_vars

\* C11 for the snapshot script alone
C11_SnapshotCompletesOnEmpty ==
    [][(Len(df) = 0 /\ CreateCustomerMonthSpine) => pc' = "spine"]_vars

=============================================================================
